---- MODULE Spec2Model ----
(***************************************************************************)
(* The proof-request registry of x/relay/keeper/requests.go: the sequence  *)
(* allocator (getNextID, incrementID), the request registry (setRequest,   *)
(* getRequest, setRequestState) and the proof validator (checkRequests).   *)
(*                                                                         *)
(* Bytes are naturals in 0..255 and a byte slice is a sequence of them.    *)
(* The keeper's context is the record ctx: the counter key of the request  *)
(* store (idTag), the request records of the store keyed by their 8-byte   *)
(* ID (requests) and the events emitted so far (events).  Every keeper     *)
(* method is an operator from a context (and its arguments) to the context *)
(* it leaves and what it returns.  proof is the transaction data the       *)
(* callers of checkRequests submit: a vin, a vout and an index into each.  *)
(* calls holds the setRequest calls in progress, where their steps are     *)
(* taken one by one.                                                       *)
(***************************************************************************)
EXTENDS Naturals, Sequences, FiniteSets

VARIABLES ctx, proof, last, nCreated, closed, calls

vars == <<ctx, proof, last, nCreated, closed, calls>>

(***************************************************************************)
(* Bounds of the model.                                                    *)
(***************************************************************************)
\* successful creates in one behaviour of the registry
MaxCreates == 2
\* successful creates in one behaviour of the validator
MaxChecked == 1
\* number of distinct non-zero digests of the modelled hash
DigestSpace == 7
\* the non-zero minimum value requests are created with
FloorValue == 1000

(***************************************************************************)
(* Go slices.                                                              *)
(***************************************************************************)
\* b[from:]
SliceFrom(b, from) == SubSeq(b, from + 1, Len(b))

\* b[from:to]
Slice(b, from, to) == SubSeq(b, from + 1, to)

\* bytes.Repeat([]byte{x}, n)
Repeat(x, n) == [i \in 1..n |-> x]

RECURSIVE SumBytes(_)
SumBytes(b) == IF b = <<>> THEN 0 ELSE Head(b) + SumBytes(Tail(b))

\* the little-endian number held by b (BytesToUint(ReverseEndianness(b)))
RECURSIVE LEToUint(_)
LEToUint(b) == IF b = <<>> THEN 0 ELSE Head(b) + 256 * LEToUint(Tail(b))

(***************************************************************************)
(* The transaction-byte oracle (package btcspv), by what its functions do  *)
(* on the Bitcoin wire format: a vin is a VarInt count followed by inputs  *)
(* (36-byte outpoint, VarInt script length, script, 4-byte sequence), a    *)
(* vout is a VarInt count followed by outputs (8-byte little-endian value, *)
(* VarInt script length, script).  The byte slices handed to it are never  *)
(* empty.                                                                  *)
(***************************************************************************)
\* Hash256Digest{}: the all-zero digest
ZeroDigest == 0

\* Hash256 (double SHA-256) as a fixed many-to-one function of the bytes:
\* distinct inputs may collide, and no input has the all-zero digest.
Hash256(b) == 1 + ((SumBytes(b) + Len(b)) % DigestSpace)

DetermineVarIntDataLength(flag) ==
    CASE flag = 253 -> 2
      [] flag = 254 -> 4
      [] flag = 255 -> 8
      [] OTHER -> 0

\* (dataLength, number, err) of the VarInt b starts with
ParseVarInt(b) ==
    LET dataLength == DetermineVarIntDataLength(b[1])
    IN  IF dataLength = 0
        THEN [dataLength |-> 0, number |-> b[1], err |-> FALSE]
        ELSE IF Len(b) < 1 + dataLength
             THEN [dataLength |-> 0, number |-> 0, err |-> TRUE]
             ELSE [dataLength |-> dataLength,
                   number |-> LEToUint(Slice(b, 1, 1 + dataLength)),
                   err |-> FALSE]

DetermineInputLength(input) ==
    IF Len(input) < 37
    THEN [length |-> 0, err |-> TRUE]
    ELSE LET v == ParseVarInt(SliceFrom(input, 36))
         IN  IF v.err
             THEN [length |-> 0, err |-> TRUE]
             ELSE [length |-> 41 + v.dataLength + v.number, err |-> FALSE]

DetermineOutputLength(output) ==
    IF Len(output) < 9
    THEN [length |-> 0, err |-> TRUE]
    ELSE LET v == ParseVarInt(SliceFrom(output, 8))
         IN  IF v.err
             THEN [length |-> 0, err |-> TRUE]
             ELSE [length |-> 9 + v.dataLength + v.number, err |-> FALSE]

\* the loop of ValidateVin from byte offset, with n inputs still to read
RECURSIVE ValidateVinFrom(_, _, _)
ValidateVinFrom(vin, offset, n) ==
    IF n = 0
    THEN offset = Len(vin)
    ELSE IF offset >= Len(vin)
         THEN FALSE
         ELSE LET l == DetermineInputLength(SliceFrom(vin, offset))
              IN  IF l.err THEN FALSE
                  ELSE ValidateVinFrom(vin, offset + l.length, n - 1)

ValidateVin(vin) ==
    LET v == ParseVarInt(vin)
    IN  IF v.err \/ v.number = 0
        THEN FALSE
        ELSE ValidateVinFrom(vin, 1 + v.dataLength, v.number)

RECURSIVE ValidateVoutFrom(_, _, _)
ValidateVoutFrom(vout, offset, n) ==
    IF n = 0
    THEN offset = Len(vout)
    ELSE IF offset >= Len(vout)
         THEN FALSE
         ELSE LET l == DetermineOutputLength(SliceFrom(vout, offset))
              IN  IF l.err THEN FALSE
                  ELSE ValidateVoutFrom(vout, offset + l.length, n - 1)

ValidateVout(vout) ==
    LET v == ParseVarInt(vout)
    IN  IF v.err \/ v.number = 0
        THEN FALSE
        ELSE ValidateVoutFrom(vout, 1 + v.dataLength, v.number)

\* the input that starts at offset once skip inputs before it are passed
RECURSIVE InputFrom(_, _, _)
InputFrom(vin, offset, skip) ==
    LET l == DetermineInputLength(SliceFrom(vin, offset))
    IN  IF l.err
        THEN [bytes |-> <<>>, err |-> TRUE]
        ELSE IF skip = 0
             THEN [bytes |-> Slice(vin, offset, offset + l.length), err |-> FALSE]
             ELSE InputFrom(vin, offset + l.length, skip - 1)

ExtractInputAtIndex(vin, index) ==
    LET v == ParseVarInt(vin)
    IN  IF v.err \/ index >= v.number
        THEN [bytes |-> <<>>, err |-> TRUE]
        ELSE InputFrom(vin, 1 + v.dataLength, index)

RECURSIVE OutputFrom(_, _, _)
OutputFrom(vout, offset, skip) ==
    LET l == DetermineOutputLength(SliceFrom(vout, offset))
    IN  IF l.err
        THEN [bytes |-> <<>>, err |-> TRUE]
        ELSE IF skip = 0
             THEN [bytes |-> Slice(vout, offset, offset + l.length), err |-> FALSE]
             ELSE OutputFrom(vout, offset + l.length, skip - 1)

ExtractOutputAtIndex(vout, index) ==
    LET v == ParseVarInt(vout)
    IN  IF v.err \/ index >= v.number
        THEN [bytes |-> <<>>, err |-> TRUE]
        ELSE OutputFrom(vout, 1 + v.dataLength, index)

ExtractOutpoint(input) == Slice(input, 0, 36)

ExtractValue(output) == LEToUint(Slice(output, 0, 8))

(***************************************************************************)
(* Package types: the request ID, the stored record and its encoding, and  *)
(* the errors the keeper returns.                                          *)
(***************************************************************************)
Nil == "nil"
ErrUnknownRequest == "UnknownRequest"
ErrClosedRequest == "ClosedRequest"
ErrInvalidVin == "InvalidVin"
ErrInvalidVout == "InvalidVout"
ErrRequestPays == "RequestPays"
ErrRequestValue == "RequestValue"
ErrRequestSpends == "RequestSpends"
ErrExternal == "External"
ErrBadIDLength == "MalformedCounter"
\* FromBTCSPVError: the oracle's extraction error, wrapped
ErrBTCSPV == "BTCSPVError"
\* not a returned error: the call aborts with a runtime panic
Panic == "panic"

\* types.ProofRequest{}
ZeroRequest ==
    [Spends |-> ZeroDigest, Pays |-> ZeroDigest, PaysValue |-> 0,
     ActiveState |-> FALSE, NumConfs |-> 0, Origin |-> 0, Action |-> <<>>]

\* NewRequestID: a RequestID is exactly 8 bytes
NewRequestID(b) ==
    IF Len(b) = 8
    THEN [id |-> b, err |-> Nil]
    ELSE [id |-> Repeat(0, 8), err |-> ErrBadIDLength]

\* json.Marshal of a ProofRequest: the encoded record, field after field
\* (a ProofRequest always encodes: ErrMarshalJSON is never returned)
Marshal(request) ==
    <<request.Spends, request.Pays, request.PaysValue, request.ActiveState,
      request.NumConfs, request.Origin, request.Action>>

\* json.Unmarshal into a ProofRequest
Unmarshal(buf) ==
    IF Len(buf) = 7
    THEN [request |-> [Spends |-> buf[1], Pays |-> buf[2], PaysValue |-> buf[3],
                       ActiveState |-> buf[4], NumConfs |-> buf[5],
                       Origin |-> buf[6], Action |-> buf[7]],
          err |-> FALSE]
    ELSE [request |-> ZeroRequest, err |-> TRUE]

(***************************************************************************)
(* The request store: has, get and set on the request keys and on the      *)
(* counter key types.RequestIDTag.                                         *)
(***************************************************************************)
NoRequests == [k \in {} |-> <<>>]

AbsentTag == [has |-> FALSE, val |-> <<>>]

\* store.Set(id[:], buf)
StoreSetRequest(c, id, buf) ==
    [c EXCEPT !.requests =
        [k \in DOMAIN c.requests \cup {id} |-> IF k = id THEN buf ELSE c.requests[k]]]

\* store.Set([]byte(types.RequestIDTag), b)
StoreSetTag(c, b) == [c EXCEPT !.idTag = [has |-> TRUE, val |-> b]]

(***************************************************************************)
(* The keeper.                                                             *)
(***************************************************************************)
emitProofRequest(c, pays, spends, paysValue, id, origin) ==
    [c EXCEPT !.events = Append(@, [pays |-> pays, spends |-> spends,
                                    paysValue |-> paysValue, id |-> id,
                                    origin |-> origin])]

hasRequest(c, id) == id \in DOMAIN c.requests

\* binary.BigEndian.PutUint64(b, binary.BigEndian.Uint64(id) + 1): the
\* big-endian bytes of the number plus one, of the same width (all 255 wraps)
RECURSIVE Uint64PlusOne(_)
Uint64PlusOne(id) ==
    IF id = <<>>
    THEN <<>>
    ELSE LET n == Len(id)
         IN  IF id[n] < 255
             THEN [id EXCEPT ![n] = id[n] + 1]
             ELSE Append(Uint64PlusOne(SubSeq(id, 1, n - 1)), 0)

\* mutant: the counter is set to zero whether the key is there or not
getNextID_AlwaysResets(c) ==
    LET c1 == StoreSetTag(c, Repeat(0, 8))
        newID == NewRequestID(c1.idTag.val)
    IN  [ctx |-> c1, id |-> newID.id, err |-> newID.err]

getNextID(c) ==
    LET c1 == IF ~c.idTag.has THEN StoreSetTag(c, Repeat(0, 8)) ELSE c
        newID == NewRequestID(c1.idTag.val)
    IN  [ctx |-> c1, id |-> newID.id, err |-> newID.err]

\* mutant: the new counter is written little-endian
incrementID_LittleEndian(c) ==
    LET next == getNextID(c)
        b == Uint64PlusOne(next.id)
    IN  IF next.err # Nil
        THEN [ctx |-> next.ctx, err |-> next.err]
        ELSE [ctx |-> StoreSetTag(next.ctx, [i \in 1..Len(b) |-> b[Len(b) + 1 - i]]),
              err |-> Nil]

\* mutant: the counter goes up by two
incrementID_SkipsOne(c) ==
    LET next == getNextID(c)
    IN  IF next.err # Nil
        THEN [ctx |-> next.ctx, err |-> next.err]
        ELSE [ctx |-> StoreSetTag(next.ctx, Uint64PlusOne(Uint64PlusOne(next.id))),
              err |-> Nil]

incrementID(c) ==
    LET next == getNextID(c)
    IN  IF next.err # Nil
        THEN [ctx |-> next.ctx, err |-> next.err]
        ELSE [ctx |-> StoreSetTag(next.ctx, Uint64PlusOne(next.id)), err |-> Nil]

\* mutant: empty spends and pays are hashed like any other bytes
setRequest_HashesEmpty(c, spends, pays, paysValue, numConfs, origin, action) ==
    LET request == [Spends |-> Hash256(spends), Pays |-> Hash256(pays),
                    PaysValue |-> paysValue, ActiveState |-> TRUE,
                    NumConfs |-> numConfs, Origin |-> origin, Action |-> action]
        next == getNextID(c)
        stored == StoreSetRequest(next.ctx, next.id, Marshal(request))
        inc == incrementID(stored)
    IN  IF next.err # Nil
        THEN [ctx |-> next.ctx, err |-> next.err]
        ELSE IF inc.err # Nil
             THEN [ctx |-> inc.ctx, err |-> inc.err]
             ELSE [ctx |-> emitProofRequest(inc.ctx, pays, spends,
                                            request.PaysValue, next.id, origin),
                   err |-> Nil]

\* mutant: the event is emitted before the errors are looked at
setRequest_EmitsOnFailure(c, spends, pays, paysValue, numConfs, origin, action) ==
    LET spendsDigest == IF Len(spends) = 0 THEN ZeroDigest ELSE Hash256(spends)
        paysDigest == IF Len(pays) = 0 THEN ZeroDigest ELSE Hash256(pays)
        request == [Spends |-> spendsDigest, Pays |-> paysDigest,
                    PaysValue |-> paysValue, ActiveState |-> TRUE,
                    NumConfs |-> numConfs, Origin |-> origin, Action |-> action]
        next == getNextID(c)
        stored == StoreSetRequest(next.ctx, next.id, Marshal(request))
        inc == incrementID(stored)
    IN  IF next.err # Nil
        THEN [ctx |-> emitProofRequest(next.ctx, pays, spends,
                                       request.PaysValue, next.id, origin),
              err |-> next.err]
        ELSE IF inc.err # Nil
             THEN [ctx |-> inc.ctx, err |-> inc.err]
             ELSE [ctx |-> emitProofRequest(inc.ctx, pays, spends,
                                            request.PaysValue, next.id, origin),
                   err |-> Nil]

\* mutant: the two digests are stored in each other's field
setRequest_SwapsDigests(c, spends, pays, paysValue, numConfs, origin, action) ==
    LET spendsDigest == IF Len(spends) = 0 THEN ZeroDigest ELSE Hash256(spends)
        paysDigest == IF Len(pays) = 0 THEN ZeroDigest ELSE Hash256(pays)
        request == [Spends |-> paysDigest, Pays |-> spendsDigest,
                    PaysValue |-> paysValue, ActiveState |-> TRUE,
                    NumConfs |-> numConfs, Origin |-> origin, Action |-> action]
        next == getNextID(c)
        stored == StoreSetRequest(next.ctx, next.id, Marshal(request))
        inc == incrementID(stored)
    IN  IF next.err # Nil
        THEN [ctx |-> next.ctx, err |-> next.err]
        ELSE IF inc.err # Nil
             THEN [ctx |-> inc.ctx, err |-> inc.err]
             ELSE [ctx |-> emitProofRequest(inc.ctx, pays, spends,
                                            request.PaysValue, next.id, origin),
                   err |-> Nil]

\* mutant: the record is stored before the error of getNextID is looked at
setRequest_StoresBeforeCheck(c, spends, pays, paysValue, numConfs, origin, action) ==
    LET spendsDigest == IF Len(spends) = 0 THEN ZeroDigest ELSE Hash256(spends)
        paysDigest == IF Len(pays) = 0 THEN ZeroDigest ELSE Hash256(pays)
        request == [Spends |-> spendsDigest, Pays |-> paysDigest,
                    PaysValue |-> paysValue, ActiveState |-> TRUE,
                    NumConfs |-> numConfs, Origin |-> origin, Action |-> action]
        next == getNextID(c)
        stored == StoreSetRequest(next.ctx, next.id, Marshal(request))
        inc == incrementID(stored)
    IN  IF next.err # Nil
        THEN [ctx |-> stored, err |-> next.err]
        ELSE IF inc.err # Nil
             THEN [ctx |-> inc.ctx, err |-> inc.err]
             ELSE [ctx |-> emitProofRequest(inc.ctx, pays, spends,
                                            request.PaysValue, next.id, origin),
                   err |-> Nil]

setRequest(c, spends, pays, paysValue, numConfs, origin, action) ==
    LET spendsDigest == IF Len(spends) = 0 THEN ZeroDigest ELSE Hash256(spends)
        paysDigest == IF Len(pays) = 0 THEN ZeroDigest ELSE Hash256(pays)
        request == [Spends |-> spendsDigest, Pays |-> paysDigest,
                    PaysValue |-> paysValue, ActiveState |-> TRUE,
                    NumConfs |-> numConfs, Origin |-> origin, Action |-> action]
        next == getNextID(c)
        stored == StoreSetRequest(next.ctx, next.id, Marshal(request))
        inc == incrementID(stored)
    IN  IF next.err # Nil
        THEN [ctx |-> next.ctx, err |-> next.err]
        ELSE IF inc.err # Nil
             THEN [ctx |-> inc.ctx, err |-> inc.err]
             ELSE [ctx |-> emitProofRequest(inc.ctx, pays, spends,
                                            request.PaysValue, next.id, origin),
                   err |-> Nil]

getRequest(c, id) ==
    IF ~hasRequest(c, id)
    THEN [ctx |-> c, request |-> ZeroRequest, err |-> ErrUnknownRequest]
    ELSE LET dec == Unmarshal(c.requests[id])
         IN  IF dec.err
             THEN [ctx |-> c, request |-> ZeroRequest, err |-> ErrExternal]
             ELSE [ctx |-> c, request |-> dec.request, err |-> Nil]

\* mutant: the error of the lookup is dropped, and the record written anyway
setRequestState_Upsert(c, requestID, active) ==
    LET got == getRequest(c, requestID)
        request == [got.request EXCEPT !.ActiveState = active]
    IN  [ctx |-> StoreSetRequest(got.ctx, requestID, Marshal(request)),
         err |-> Nil]

\* mutant: a fresh record with the flag is stored, not the one read
setRequestState_FreshRecord(c, requestID, active) ==
    LET got == getRequest(c, requestID)
        request == [ZeroRequest EXCEPT !.ActiveState = active]
    IN  IF got.err # Nil
        THEN [ctx |-> got.ctx, err |-> got.err]
        ELSE [ctx |-> StoreSetRequest(got.ctx, requestID, Marshal(request)),
              err |-> Nil]

\* mutant: the flag is flipped, not set
setRequestState_Toggles(c, requestID, active) ==
    LET got == getRequest(c, requestID)
        request == [got.request EXCEPT !.ActiveState = ~got.request.ActiveState]
    IN  IF got.err # Nil
        THEN [ctx |-> got.ctx, err |-> got.err]
        ELSE [ctx |-> StoreSetRequest(got.ctx, requestID, Marshal(request)),
              err |-> Nil]

setRequestState(c, requestID, active) ==
    LET got == getRequest(c, requestID)
        request == [got.request EXCEPT !.ActiveState = active]
    IN  IF got.err # Nil
        THEN [ctx |-> got.ctx, err |-> got.err]
        ELSE [ctx |-> StoreSetRequest(got.ctx, requestID, Marshal(request)),
              err |-> Nil]

\* mutant: an output at the floor is rejected too
checkPays_ExclusiveFloor(req, outputIndex, vout) ==
    LET out == ExtractOutputAtIndex(vout, outputIndex).bytes
    IN  IF Len(out) < 8
        THEN Panic
        ELSE IF Hash256(SliceFrom(out, 8)) # req.Pays
             THEN ErrRequestPays
             ELSE IF req.PaysValue # 0 /\ ExtractValue(out) <= req.PaysValue
                  THEN ErrRequestValue
                  ELSE Nil

\* mutant: the digest comparison is inverted
checkPays_InvertedCompare(req, outputIndex, vout) ==
    LET out == ExtractOutputAtIndex(vout, outputIndex).bytes
    IN  IF Len(out) < 8
        THEN Panic
        ELSE IF Hash256(SliceFrom(out, 8)) = req.Pays
             THEN ErrRequestPays
             ELSE IF req.PaysValue # 0 /\ ExtractValue(out) < req.PaysValue
                  THEN ErrRequestValue
                  ELSE Nil

\* the pay constraint of checkRequests, once the request is known active
checkPays(req, outputIndex, vout) ==
    LET out == ExtractOutputAtIndex(vout, outputIndex).bytes
    IN  IF Len(out) < 8
        THEN Panic
        ELSE IF Hash256(SliceFrom(out, 8)) # req.Pays
             THEN ErrRequestPays
             ELSE IF req.PaysValue # 0 /\ ExtractValue(out) < req.PaysValue
                  THEN ErrRequestValue
                  ELSE Nil

\* mutant: the whole input is hashed, not its outpoint
checkSpends_WholeInput(req, inputIndex, vin) ==
    LET in == ExtractInputAtIndex(vin, inputIndex)
    IN  IF in.err
        THEN ErrBTCSPV
        ELSE IF Hash256(in.bytes) # req.Spends
             THEN ErrRequestSpends
             ELSE Nil

\* the spend constraint of checkRequests
checkSpends(req, inputIndex, vin) ==
    LET in == ExtractInputAtIndex(vin, inputIndex)
    IN  IF in.err
        THEN ErrBTCSPV
        ELSE IF Hash256(ExtractOutpoint(in.bytes)) # req.Spends
             THEN ErrRequestSpends
             ELSE Nil

\* mutant: the request is looked up before the transaction data is validated
checkRequests_LookupFirst(c, inputIndex, outputIndex, vin, vout, requestID) ==
    LET got == getRequest(c, requestID)
        req == got.request
        hasPays == req.Pays # ZeroDigest
        hasSpends == req.Spends # ZeroDigest
        paysErr == IF hasPays THEN checkPays(req, outputIndex, vout) ELSE Nil
        spendsErr == IF hasSpends THEN checkSpends(req, inputIndex, vin) ELSE Nil
    IN  IF got.err # Nil
        THEN [ctx |-> got.ctx, err |-> got.err]
        ELSE IF ~req.ActiveState
        THEN [ctx |-> got.ctx, err |-> ErrClosedRequest]
        ELSE IF ~ValidateVin(vin)
        THEN [ctx |-> got.ctx, err |-> ErrInvalidVin]
        ELSE IF ~ValidateVout(vout)
        THEN [ctx |-> got.ctx, err |-> ErrInvalidVout]
        ELSE IF paysErr # Nil
        THEN [ctx |-> got.ctx, err |-> paysErr]
        ELSE [ctx |-> got.ctx, err |-> spendsErr]

\* mutant: the active flag is looked at after the constraints
checkRequests_ClosedLast(c, inputIndex, outputIndex, vin, vout, requestID) ==
    IF ~ValidateVin(vin)
    THEN [ctx |-> c, err |-> ErrInvalidVin]
    ELSE IF ~ValidateVout(vout)
    THEN [ctx |-> c, err |-> ErrInvalidVout]
    ELSE LET got == getRequest(c, requestID)
             req == got.request
             hasPays == req.Pays # ZeroDigest
             hasSpends == req.Spends # ZeroDigest
             paysErr == IF hasPays THEN checkPays(req, outputIndex, vout) ELSE Nil
             spendsErr == IF hasSpends THEN checkSpends(req, inputIndex, vin) ELSE Nil
         IN  IF got.err # Nil
             THEN [ctx |-> got.ctx, err |-> got.err]
             ELSE IF paysErr # Nil
             THEN [ctx |-> got.ctx, err |-> paysErr]
             ELSE IF spendsErr # Nil
             THEN [ctx |-> got.ctx, err |-> spendsErr]
             ELSE IF ~req.ActiveState
             THEN [ctx |-> got.ctx, err |-> ErrClosedRequest]
             ELSE [ctx |-> got.ctx, err |-> Nil]

\* mutant: a request that is satisfied is closed by the check
checkRequests_ClosesOnSuccess(c, inputIndex, outputIndex, vin, vout, requestID) ==
    IF ~ValidateVin(vin)
    THEN [ctx |-> c, err |-> ErrInvalidVin]
    ELSE IF ~ValidateVout(vout)
    THEN [ctx |-> c, err |-> ErrInvalidVout]
    ELSE LET got == getRequest(c, requestID)
             req == got.request
             hasPays == req.Pays # ZeroDigest
             hasSpends == req.Spends # ZeroDigest
             paysErr == IF hasPays THEN checkPays(req, outputIndex, vout) ELSE Nil
             spendsErr == IF hasSpends THEN checkSpends(req, inputIndex, vin) ELSE Nil
         IN  IF got.err # Nil
             THEN [ctx |-> got.ctx, err |-> got.err]
             ELSE IF ~req.ActiveState
             THEN [ctx |-> got.ctx, err |-> ErrClosedRequest]
             ELSE IF paysErr # Nil
             THEN [ctx |-> got.ctx, err |-> paysErr]
             ELSE IF spendsErr # Nil
             THEN [ctx |-> got.ctx, err |-> spendsErr]
             ELSE [ctx |-> setRequestState(got.ctx, requestID, FALSE).ctx,
                   err |-> Nil]

\* mutant: the value floor is applied without a pay constraint too
checkRequests_ValueAlways(c, inputIndex, outputIndex, vin, vout, requestID) ==
    IF ~ValidateVin(vin)
    THEN [ctx |-> c, err |-> ErrInvalidVin]
    ELSE IF ~ValidateVout(vout)
    THEN [ctx |-> c, err |-> ErrInvalidVout]
    ELSE LET got == getRequest(c, requestID)
             req == got.request
             hasPays == req.Pays # ZeroDigest
             hasSpends == req.Spends # ZeroDigest
             out == ExtractOutputAtIndex(vout, outputIndex).bytes
             paysErr == IF hasPays
                        THEN checkPays(req, outputIndex, vout)
                        ELSE IF /\ req.PaysValue # 0
                                /\ Len(out) >= 8
                                /\ ExtractValue(out) < req.PaysValue
                             THEN ErrRequestValue
                             ELSE Nil
             spendsErr == IF hasSpends THEN checkSpends(req, inputIndex, vin) ELSE Nil
         IN  IF got.err # Nil
             THEN [ctx |-> got.ctx, err |-> got.err]
             ELSE IF ~req.ActiveState
             THEN [ctx |-> got.ctx, err |-> ErrClosedRequest]
             ELSE IF paysErr # Nil
             THEN [ctx |-> got.ctx, err |-> paysErr]
             ELSE [ctx |-> got.ctx, err |-> spendsErr]

checkRequests(c, inputIndex, outputIndex, vin, vout, requestID) ==
    IF ~ValidateVin(vin)
    THEN [ctx |-> c, err |-> ErrInvalidVin]
    ELSE IF ~ValidateVout(vout)
    THEN [ctx |-> c, err |-> ErrInvalidVout]
    ELSE LET got == getRequest(c, requestID)
             req == got.request
             hasPays == req.Pays # ZeroDigest
             hasSpends == req.Spends # ZeroDigest
             paysErr == IF hasPays THEN checkPays(req, outputIndex, vout) ELSE Nil
             spendsErr == IF hasSpends THEN checkSpends(req, inputIndex, vin) ELSE Nil
         IN  IF got.err # Nil
             THEN [ctx |-> got.ctx, err |-> got.err]
             ELSE IF ~req.ActiveState
             THEN [ctx |-> got.ctx, err |-> ErrClosedRequest]
             ELSE IF paysErr # Nil
             THEN [ctx |-> got.ctx, err |-> paysErr]
             ELSE [ctx |-> got.ctx, err |-> spendsErr]

(***************************************************************************)
(* The inputs the operations are called with.                              *)
(***************************************************************************)
\* the n big-endian bytes of k
RECURSIVE UintToBE(_, _)
UintToBE(k, n) == IF n = 0 THEN <<>> ELSE Append(UintToBE(k \div 256, n - 1), k % 256)

\* the n little-endian bytes of k
RECURSIVE UintToLE(_, _)
UintToLE(k, n) == IF n = 0 THEN <<>> ELSE <<k % 256>> \o UintToLE(k \div 256, n - 1)

\* the RequestID of the number k
IdOf(k) == UintToBE(k, 8)

\* the IDs the callers use: those of the requests created, and one more
RequestIDs == {IdOf(k) : k \in 0..MaxCreates}

\* two outpoints: the same transaction ID, output 0 and output 1
OutpointX == Repeat(17, 32) \o UintToLE(0, 4)
OutpointY == Repeat(17, 32) \o UintToLE(1, 4)

\* an input spending outpoint, with an empty script and the final sequence
Input(outpoint) == outpoint \o <<0>> \o Repeat(255, 4)

\* two output scripts, each with its length prefix
ScriptA == <<3, 81, 82, 135>>
ScriptB == <<3, 81, 83, 135>>

Output(value, script) == UintToLE(value, 8) \o script

\* the outpoints VinXY spends, by input index (from 1)
TxOutpoints == <<OutpointX, OutpointY>>

\* two inputs, spending X and Y
VinXY == <<2>> \o Input(TxOutpoints[1]) \o Input(TxOutpoints[2])
\* announces two inputs and holds one
VinTruncated == <<2>> \o Input(OutpointX)

\* the outputs of VoutGood, by output index (from 1): script A below, at and
\* above the floor, and script B
TxOutputs ==
    <<[value |-> FloorValue - 1, script |-> ScriptA],
      [value |-> FloorValue, script |-> ScriptA],
      [value |-> FloorValue + 1, script |-> ScriptA],
      [value |-> FloorValue, script |-> ScriptB]>>

VoutGood ==
    <<4>> \o Output(TxOutputs[1].value, TxOutputs[1].script)
          \o Output(TxOutputs[2].value, TxOutputs[2].script)
          \o Output(TxOutputs[3].value, TxOutputs[3].script)
          \o Output(TxOutputs[4].value, TxOutputs[4].script)
\* announces no output
VoutNone == <<0>>

Vins == {VinXY, VinTruncated}
Vouts == {VoutGood, VoutNone}
\* the last index of each range is past the end of VinXY, of VoutGood
InputIndices == 0..2
OutputIndices == 0..4

\* well-formed transaction data with every pair of indices, and malformed
\* transaction data with the first and the last pair
Proofs ==
    {[vin |-> VinXY, vout |-> VoutGood, inputIndex |-> i, outputIndex |-> o] :
        i \in InputIndices, o \in OutputIndices}
    \cup
    {[vin |-> vin, vout |-> vout, inputIndex |-> i, outputIndex |-> 2 * i] :
        vin \in Vins, vout \in Vouts, i \in {0, 2}}

\* the transaction data of the registry's behaviours: input Y and output
\* (FloorValue, ScriptA) of a well-formed transaction, and a malformed vin
RegistryProofs ==
    {[vin |-> VinXY, vout |-> VoutGood, inputIndex |-> 1, outputIndex |-> 1],
     [vin |-> VinTruncated, vout |-> VoutGood, inputIndex |-> 0, outputIndex |-> 0]}

SpendsArgs == {<<>>, OutpointX}
PaysArgs == {<<>>, ScriptA}
PaysValues == {0, FloorValue}
NumConfsArgs == {6}
Origins == {1}
Actions == {<<171, 205>>}

(***************************************************************************)
(* The state machine: one action per keeper call, run to completion.       *)
(* last is the latest call, with its arguments and what it returned;       *)
(* nCreated counts the calls of setRequest that returned nil; closed holds *)
(* the IDs whose latest successful setRequestState was a deactivation.     *)
(***************************************************************************)
\* the callers whose setRequest calls may be in progress together
Callers == {1, 2}

\* a caller with no call in progress
Idle ==
    [pc |-> "idle", spends |-> <<>>, pays |-> <<>>, paysValue |-> 0,
     numConfs |-> 0, origin |-> 0, action |-> <<>>, id |-> <<>>,
     overlapped |-> FALSE, order |-> 0]

NoCalls == [p \in Callers |-> Idle]

NoCall ==
    [op |-> "none", id |-> IdOf(0), active |-> FALSE,
     spends |-> <<>>, pays |-> <<>>, paysValue |-> 0, numConfs |-> 0,
     origin |-> 0, action |-> <<>>,
     err |-> Nil, request |-> ZeroRequest, before |-> <<>>]

\* the bytes stored under id, none when there is no such key
Stored(c, id) == IF id \in DOMAIN c.requests THEN c.requests[id] ELSE <<>>

EmptyCtx == [idTag |-> AbsentTag, requests |-> NoRequests, events |-> <<>>]

Init ==
    /\ ctx = EmptyCtx
    /\ proof \in RegistryProofs
    /\ last = NoCall
    /\ nCreated = 0
    /\ closed = {}
    /\ calls = NoCalls

InitCheck ==
    /\ ctx = EmptyCtx
    /\ proof \in Proofs
    /\ last = NoCall
    /\ nCreated = 0
    /\ closed = {}
    /\ calls = NoCalls

CreateUpTo(max) ==
    /\ nCreated < max
    /\ \E spends \in SpendsArgs, pays \in PaysArgs, paysValue \in PaysValues,
          numConfs \in NumConfsArgs, origin \in Origins, action \in Actions :
          LET r == setRequest(ctx, spends, pays, paysValue, numConfs, origin, action)
          IN  /\ ctx' = r.ctx
              /\ last' = [NoCall EXCEPT !.op = "create", !.spends = spends,
                             !.pays = pays, !.paysValue = paysValue,
                             !.numConfs = numConfs, !.origin = origin,
                             !.action = action, !.err = r.err]
              /\ nCreated' = IF r.err = Nil THEN nCreated + 1 ELSE nCreated
              /\ UNCHANGED <<proof, closed, calls>>

Create == CreateUpTo(MaxCreates)

CreateChecked == CreateUpTo(MaxChecked)

Get ==
    \E id \in RequestIDs :
        LET r == getRequest(ctx, id)
        IN  /\ ctx' = r.ctx
            /\ last' = [NoCall EXCEPT !.op = "get", !.id = id, !.err = r.err,
                           !.request = r.request]
            /\ UNCHANGED <<proof, nCreated, closed, calls>>

SetActive ==
    \E id \in RequestIDs, active \in BOOLEAN :
        LET r == setRequestState(ctx, id, active)
        IN  /\ ctx' = r.ctx
            /\ last' = [NoCall EXCEPT !.op = "setActive", !.id = id,
                           !.active = active, !.err = r.err,
                           !.before = Stored(ctx, id)]
            /\ closed' = IF r.err # Nil THEN closed
                         ELSE IF active THEN closed \ {id} ELSE closed \cup {id}
            /\ UNCHANGED <<proof, nCreated, calls>>

Check ==
    \E id \in RequestIDs :
        LET r == checkRequests(ctx, proof.inputIndex, proof.outputIndex,
                               proof.vin, proof.vout, id)
        IN  /\ ctx' = r.ctx
            /\ last' = [NoCall EXCEPT !.op = "check", !.id = id, !.err = r.err]
            /\ UNCHANGED <<proof, nCreated, closed, calls>>

Next == Create \/ Get \/ SetActive \/ Check

Spec == Init /\ [][Next]_vars

NextCheck == CreateChecked \/ Get \/ SetActive \/ Check

SpecCheck == InitCheck /\ [][NextCheck]_vars

(***************************************************************************)
(* The registry when its counter has come to the last two values of a      *)
(* uint64.  The store then holds a record under every smaller ID; of these *)
(* the model keeps the one under ID 0, the key the counter comes back to.  *)
(***************************************************************************)
MaxWrapped == 3

\* the big-endian bytes of 2^64 - 2
LastButOne == Append(Repeat(255, 7), 254)

InitWrap ==
    /\ ctx = StoreSetTag(
                setRequest(EmptyCtx, OutpointX, ScriptA, FloorValue, 6, 1,
                           <<171, 205>>).ctx,
                LastButOne)
    /\ proof \in RegistryProofs
    /\ last = NoCall
    /\ nCreated = 0
    /\ closed = {}
    /\ calls = NoCalls

CreateWrapped == CreateUpTo(MaxWrapped)

NextWrap == CreateWrapped \/ Get

SpecWrap == InitWrap /\ [][NextWrap]_vars

(***************************************************************************)
(* The registry on a store whose counter key is absent, holds a            *)
(* well-formed zero, or holds bytes of another length than a RequestID     *)
(* (getNextID hands whatever is stored to types.NewRequestID).             *)
(***************************************************************************)
MaxCounted == 1

\* what the store may hold under types.RequestIDTag when the keeper starts
CounterTags ==
    {AbsentTag, [has |-> TRUE, val |-> Repeat(0, 8)]}
    \cup {[has |-> TRUE, val |-> b] : b \in {<<>>, Repeat(0, 7), Repeat(0, 9)}}

InitCounter ==
    /\ \E tag \in CounterTags : ctx = [EmptyCtx EXCEPT !.idTag = tag]
    /\ proof \in RegistryProofs
    /\ last = NoCall
    /\ nCreated = 0
    /\ closed = {}
    /\ calls = NoCalls

CreateCounted == CreateUpTo(MaxCounted)

\* a call of getNextID alone
PeekNext ==
    LET r == getNextID(ctx)
    IN  /\ ctx' = r.ctx
        /\ last' = [NoCall EXCEPT !.op = "peekNext", !.id = r.id, !.err = r.err]
        /\ UNCHANGED <<proof, nCreated, closed, calls>>

NextCounter == CreateCounted \/ PeekNext \/ Get \/ SetActive \/ Check

SpecCounter == InitCounter /\ [][NextCounter]_vars

(***************************************************************************)
(* setRequest taken step by step, for two callers at once: the request is  *)
(* built, getNextID is called, the record is set in the store, incrementID *)
(* is called, and the event is emitted.  The steps of the two calls come   *)
(* in any order, the order where one call ends before the other begins     *)
(* included.                                                               *)
(***************************************************************************)
\* the ProofRequest that setRequest builds from the arguments of a call
BuildRequest(call) ==
    [Spends |-> IF Len(call.spends) = 0 THEN ZeroDigest ELSE Hash256(call.spends),
     Pays |-> IF Len(call.pays) = 0 THEN ZeroDigest ELSE Hash256(call.pays),
     PaysValue |-> call.paysValue, ActiveState |-> TRUE,
     NumConfs |-> call.numConfs, Origin |-> call.origin, Action |-> call.action]

\* the calls that have been through getNextID
Peeked == {q \in Callers : calls[q].pc \notin {"idle", "peek"}}

InitInterleaved ==
    /\ ctx = EmptyCtx
    /\ proof \in RegistryProofs
    /\ last = NoCall
    /\ nCreated = 0
    /\ closed = {}
    /\ calls = NoCalls

\* setRequest is entered
Begin(p) ==
    /\ calls[p].pc = "idle"
    /\ \E spends \in SpendsArgs, pays \in PaysArgs, paysValue \in PaysValues,
          numConfs \in NumConfsArgs, origin \in Origins, action \in Actions :
          calls' = [calls EXCEPT ![p] =
                       [Idle EXCEPT !.pc = "peek", !.spends = spends,
                           !.pays = pays, !.paysValue = paysValue,
                           !.numConfs = numConfs, !.origin = origin,
                           !.action = action]]
    /\ UNCHANGED <<ctx, proof, last, nCreated, closed>>

\* id, err := k.getNextID(ctx)
Peek(p) ==
    /\ calls[p].pc = "peek"
    /\ LET r == getNextID(ctx)
       IN  /\ ctx' = r.ctx
           /\ calls' = [calls EXCEPT ![p] =
                 [@ EXCEPT !.pc = IF r.err = Nil THEN "store" ELSE "failed",
                           !.id = r.id,
                           !.order = Cardinality(Peeked) + 1,
                           !.overlapped =
                               \E q \in Callers \ {p} :
                                   calls[q].pc \in {"store", "advance"}]]
    /\ UNCHANGED <<proof, last, nCreated, closed>>

\* store.Set(id[:], buf)
Store(p) ==
    /\ calls[p].pc = "store"
    /\ ctx' = StoreSetRequest(ctx, calls[p].id, Marshal(BuildRequest(calls[p])))
    /\ calls' = [calls EXCEPT ![p].pc = "advance"]
    /\ UNCHANGED <<proof, last, nCreated, closed>>

\* incrementErr := k.incrementID(ctx)
Advance(p) ==
    /\ calls[p].pc = "advance"
    /\ LET r == incrementID(ctx)
       IN  /\ ctx' = r.ctx
           /\ calls' = [calls EXCEPT ![p].pc =
                           IF r.err = Nil THEN "emit" ELSE "failed"]
    /\ UNCHANGED <<proof, last, nCreated, closed>>

\* k.emitProofRequest(ctx, pays, spends, request.PaysValue, id, origin)
Emit(p) ==
    /\ calls[p].pc = "emit"
    /\ ctx' = emitProofRequest(ctx, calls[p].pays, calls[p].spends,
                               BuildRequest(calls[p]).PaysValue, calls[p].id,
                               calls[p].origin)
    /\ calls' = [calls EXCEPT ![p].pc = "done"]
    /\ nCreated' = nCreated + 1
    /\ UNCHANGED <<proof, last, closed>>

NextInterleaved ==
    \E p \in Callers : Begin(p) \/ Peek(p) \/ Store(p) \/ Advance(p) \/ Emit(p)

SpecInterleaved == InitInterleaved /\ [][NextInterleaved]_vars

(***************************************************************************)
(* What the claims speak of.                                               *)
(***************************************************************************)
\* the record stored under id, decoded
Record(id) == Unmarshal(ctx.requests[id]).request

Exists(id) == id \in DOMAIN ctx.requests

\* the transaction data is structurally valid: it is the well-formed vin,
\* the well-formed vout
VinValid == proof.vin = VinXY
VoutValid == proof.vout = VoutGood

InputInRange == proof.inputIndex < Len(TxOutpoints)
OutputInRange == proof.outputIndex < Len(TxOutputs)

\* the output and the outpoint the indices select
SelectedOutput == TxOutputs[proof.outputIndex + 1]
SelectedOutpoint == TxOutpoints[proof.inputIndex + 1]

\* the latest call is a check of well-formed transaction data
CheckedValid == last.op = "check" /\ VinValid /\ VoutValid

\* the latest call is a check of well-formed transaction data against an
\* existing, active request
CheckedActive == CheckedValid /\ Exists(last.id) /\ Record(last.id).ActiveState

\* the pay constraint and value floor of request r are absent or met by the
\* selected output
PaySatisfied(r) ==
    \/ r.Pays = ZeroDigest
    \/ /\ OutputInRange
       /\ Hash256(SelectedOutput.script) = r.Pays
       /\ (r.PaysValue = 0 \/ SelectedOutput.value >= r.PaysValue)

(***************************************************************************)
(* C1. Starting from an empty store, whatever get, setActive and check     *)
(* calls come in between, the k-th successful create (k from 0) stores its *)
(* record under ID k and announces ID k: the stored IDs are exactly        *)
(* 0..N-1 after N creates, with no gap and no repeat.                      *)
(***************************************************************************)
C1_SequentialIDs ==
    /\ Len(ctx.events) = nCreated
    /\ DOMAIN ctx.requests = {IdOf(k) : k \in 0..(nCreated - 1)}
    /\ \A k \in 0..(nCreated - 1) :
          LET e == ctx.events[k + 1]
              r == Record(IdOf(k))
          IN  /\ e.id = IdOf(k)
              /\ r.Spends = (IF e.spends = <<>> THEN ZeroDigest ELSE Hash256(e.spends))
              /\ r.Pays = (IF e.pays = <<>> THEN ZeroDigest ELSE Hash256(e.pays))
              /\ r.PaysValue = e.paysValue
              /\ r.Origin = e.origin
    /\ (last.op = "create" /\ last.err = Nil) =>
          /\ nCreated > 0
          /\ ctx.events[nCreated].spends = last.spends
          /\ ctx.events[nCreated].pays = last.pays
          /\ ctx.events[nCreated].paysValue = last.paysValue
          /\ Record(IdOf(nCreated - 1)).ActiveState

\* the last of MaxCreates creates came after a deactivation
C1_Witness ==
    /\ last.op = "create" /\ last.err = Nil
    /\ nCreated = MaxCreates
    /\ closed # {}
    /\ last.pays # ctx.events[1].pays

(***************************************************************************)
(* C2. Structural validation precedes lookup: whatever the request ID      *)
(* (never created and deactivated included) and the indices, check of a    *)
(* malformed vin returns InvalidVin, and check of a well-formed vin with a *)
(* malformed vout returns InvalidVout.                                     *)
(***************************************************************************)
C2_StructureFirst ==
    last.op = "check" =>
        /\ ~VinValid => last.err = ErrInvalidVin
        /\ (VinValid /\ ~VoutValid) => last.err = ErrInvalidVout

\* a malformed vin checked against an ID that was never created
C2_Witness ==
    /\ last.op = "check"
    /\ proof.vin = VinTruncated
    /\ ~Exists(last.id)
    /\ last.err = ErrInvalidVin

(***************************************************************************)
(* C3. On an ID under which no record is stored, get and setActive (with   *)
(* either flag) fail with UnknownRequest, and so does check of well-formed *)
(* transaction data; the store (records and counter) is left as it was and *)
(* no record appears under that ID.                                        *)
(***************************************************************************)
C3_UnknownRequest ==
    [][ ( /\ last'.op \in {"get", "setActive", "check"}
          /\ ~Exists(last'.id)
          /\ (last'.op = "check" => VinValid /\ VoutValid) )
        => ( /\ last'.err = ErrUnknownRequest
             /\ ctx' = ctx
             /\ last'.id \notin DOMAIN ctx'.requests ) ]_vars

\* setActive on an unknown ID of a store that holds a request
C3_Witness ==
    /\ last.op = "setActive"
    /\ last.active
    /\ last.err = ErrUnknownRequest
    /\ nCreated > 0
    /\ ~Exists(last.id)

(***************************************************************************)
(* C4. From setActive(id, false) on an existing request until the next     *)
(* setActive(id, true), every check of well-formed transaction data        *)
(* against id fails with ClosedRequest, whatever the request's digests and *)
(* floor and whether or not the transaction data meets them.               *)
(***************************************************************************)
C4_ClosedRequest ==
    (CheckedValid /\ last.id \in closed) => last.err = ErrClosedRequest

\* a closed request whose pay constraint the selected output violates, and
\* one that the transaction data would satisfy were it active
C4_Witness ==
    /\ CheckedValid /\ last.id \in closed
    /\ last.err = ErrClosedRequest
    /\ Record(last.id).Spends = ZeroDigest
    /\ PaySatisfied(Record(last.id))
    /\ Record(last.id).Pays # ZeroDigest

(***************************************************************************)
(* C5. A request created with empty spends and empty pays, while active,   *)
(* passes check of all well-formed transaction data, whatever the indices  *)
(* and whatever its paysValue.                                             *)
(***************************************************************************)
C5_Wildcard ==
    ( /\ CheckedActive
      /\ \E k \in 1..Len(ctx.events) :
            /\ ctx.events[k].id = last.id
            /\ ctx.events[k].spends = <<>>
            /\ ctx.events[k].pays = <<>> )
    => last.err = Nil

\* a wildcard request with a floor, checked with both indices out of range
C5_Witness ==
    /\ CheckedActive
    /\ ctx.events[1].id = last.id
    /\ ctx.events[1].spends = <<>> /\ ctx.events[1].pays = <<>>
    /\ ctx.events[1].paysValue = FloorValue
    /\ ~InputInRange /\ ~OutputInRange
    /\ last.err = Nil

(***************************************************************************)
(* C6. Value floor: for an active request with a pay constraint, a         *)
(* non-zero paysValue P and no spend constraint, check of an output whose  *)
(* script matches the pay digest fails with RequestValue exactly when the  *)
(* output's value is below P, and succeeds when it is P or more.           *)
(***************************************************************************)
C6_ValueFloor ==
    ( /\ CheckedActive
      /\ Record(last.id).Pays # ZeroDigest
      /\ Record(last.id).PaysValue # 0
      /\ Record(last.id).Spends = ZeroDigest
      /\ OutputInRange
      /\ Hash256(SelectedOutput.script) = Record(last.id).Pays )
    => /\ last.err = ErrRequestValue <=> SelectedOutput.value < Record(last.id).PaysValue
       /\ last.err = Nil <=> SelectedOutput.value >= Record(last.id).PaysValue

\* the output one below the floor is rejected
C6_Witness ==
    /\ CheckedActive
    /\ Record(last.id).Pays = Hash256(ScriptA)
    /\ Record(last.id).PaysValue = FloorValue
    /\ Record(last.id).Spends = ZeroDigest
    /\ OutputInRange
    /\ SelectedOutput.script = ScriptA
    /\ SelectedOutput.value = FloorValue - 1
    /\ last.err = ErrRequestValue

(***************************************************************************)
(* C7. Pay mismatch: for an active request with a pay constraint, check of *)
(* an output whose script (the output without its 8-byte value) hashes to  *)
(* another digest fails with RequestPays, whatever the output's value and  *)
(* whatever the spend constraint.                                          *)
(***************************************************************************)
C7_PayMismatch ==
    ( /\ CheckedActive
      /\ Record(last.id).Pays # ZeroDigest
      /\ OutputInRange
      /\ Hash256(SelectedOutput.script) # Record(last.id).Pays )
    => last.err = ErrRequestPays

\* script B checked against a request for script A whose spend constraint
\* the selected input violates too
C7_Witness ==
    /\ CheckedActive
    /\ Record(last.id).Pays = Hash256(ScriptA)
    /\ OutputInRange
    /\ SelectedOutput.script = ScriptB
    /\ Record(last.id).Spends = Hash256(OutpointX)
    /\ InputInRange
    /\ SelectedOutpoint = OutpointY
    /\ last.err = ErrRequestPays

(***************************************************************************)
(* C8. Spend mismatch: for an active request with a spend constraint whose *)
(* pay constraint is absent or met, check of an input whose outpoint       *)
(* hashes to another digest fails with RequestSpends, and check of an      *)
(* input whose outpoint hashes to spendsDigest succeeds.                   *)
(***************************************************************************)
C8_SpendMismatch ==
    ( /\ CheckedActive
      /\ Record(last.id).Spends # ZeroDigest
      /\ PaySatisfied(Record(last.id))
      /\ InputInRange )
    => IF Hash256(SelectedOutpoint) = Record(last.id).Spends
       THEN last.err = Nil
       ELSE last.err = ErrRequestSpends

\* outpoint Y checked against a request for outpoint X whose pay constraint
\* is met
C8_Witness ==
    /\ CheckedActive
    /\ Record(last.id).Spends = Hash256(OutpointX)
    /\ Record(last.id).Pays = Hash256(ScriptA)
    /\ PaySatisfied(Record(last.id))
    /\ InputInRange
    /\ SelectedOutpoint = OutpointY
    /\ last.err = ErrRequestSpends

(***************************************************************************)
(* C9. Deactivation round trip: setActive(id, false) followed by           *)
(* setActive(id, true) on an existing request leaves its record active,    *)
(* with every other field as it was before the two calls.                  *)
(***************************************************************************)
C9_RoundTrip ==
    [][ ( /\ last.op = "setActive" /\ ~last.active /\ last.err = Nil
          /\ last'.op = "setActive" /\ last'.active /\ last'.err = Nil
          /\ last'.id = last.id )
        => LET was == Unmarshal(last.before).request
               now == Unmarshal(ctx'.requests[last.id]).request
           IN  /\ now.ActiveState
               /\ now.Spends = was.Spends
               /\ now.Pays = was.Pays
               /\ now.PaysValue = was.PaysValue
               /\ now.NumConfs = was.NumConfs
               /\ now.Origin = was.Origin
               /\ now.Action = was.Action ]_vars

\* a request with every field set, reactivated from inactive
C9_Witness ==
    /\ last.op = "setActive" /\ last.active /\ last.err = Nil
    /\ ~Unmarshal(last.before).request.ActiveState
    /\ Record(last.id).ActiveState
    /\ Record(last.id).Spends # ZeroDigest
    /\ Record(last.id).Pays # ZeroDigest
    /\ Record(last.id).PaysValue # 0
    /\ Record(last.id).NumConfs # 0
    /\ Record(last.id).Origin # 0
    /\ Record(last.id).Action # <<>>

(***************************************************************************)
(* C10. check and get are read-only: whatever the input and the outcome,   *)
(* the records, the counter and the events are left as they were; get      *)
(* returns the stored record, so that repeating a get or a check with no   *)
(* write in between repeats its result.                                    *)
(***************************************************************************)
C10_ReadOnly ==
    [][ last'.op \in {"get", "check"} =>
          /\ ctx'.requests = ctx.requests
          /\ ctx'.idTag = ctx.idTag
          /\ ctx'.events = ctx.events
          /\ (last'.op = "get" /\ last'.err = Nil) =>
                last'.request = Unmarshal(ctx.requests[last'.id]).request
          /\ (last.op = last'.op /\ last.id = last'.id) =>
                (last'.err = last.err /\ last'.request = last.request) ]_vars

\* an accepting check on a store that holds a deactivated request
C10_Witness ==
    /\ last.op = "check" /\ last.err = Nil
    /\ closed # {}
    /\ nCreated = MaxCreates

(***************************************************************************)
(* C11: every setRequest that returns nil appends exactly one event, which *)
(* carries the arguments and the ID under which this call stored its       *)
(* record, the record being in the store when the event is there; a        *)
(* setRequest that returns an error, and every getNextID, getRequest,      *)
(* setRequestState and checkRequests, leaves the events as they were.  So  *)
(* there are as many events as calls of setRequest that returned nil.      *)
(***************************************************************************)
C11_OneEventPerCreate ==
    [][/\ Len(ctx'.events) = nCreated'
       /\ IF last'.op = "create" /\ last'.err = Nil
          THEN \E id \in DOMAIN ctx'.requests :
                  /\ id \notin DOMAIN ctx.requests
                  /\ ctx'.events =
                        Append(ctx.events,
                               [pays |-> last'.pays, spends |-> last'.spends,
                                paysValue |-> last'.paysValue, id |-> id,
                                origin |-> last'.origin])
          ELSE ctx'.events = ctx.events]_vars

\* a create has returned nil, and its one event names a stored record
C11_Witness ==
    /\ last.op = "create"
    /\ last.err = Nil
    /\ Len(ctx.events) = 1
    /\ ctx.events[1].id \in DOMAIN ctx.requests

\* what checkRequests can return to its caller: nil or an sdk.Error
Returned ==
    {Nil, ErrInvalidVin, ErrInvalidVout, ErrUnknownRequest, ErrExternal,
     ErrClosedRequest, ErrRequestPays, ErrRequestValue, ErrBTCSPV,
     ErrRequestSpends}

(***************************************************************************)
(* C12: every checkRequests ends by returning nil or a typed error to its  *)
(* caller and never aborts, an output index past the last output of a      *)
(* valid vout, for a request with a pay constraint, included.              *)
(***************************************************************************)
C12_AlwaysReturns == last.op = "check" => last.err \in Returned

\* the counter as getNextID reads it: an absent key reads as zero
Counter(c) == IF c.idTag.has THEN c.idTag.val ELSE Repeat(0, 8)

\* a < b for big-endian numbers of one width
RECURSIVE BELess(_, _)
BELess(a, b) ==
    /\ a # <<>>
    /\ \/ Head(a) < Head(b)
       \/ Head(a) = Head(b) /\ BELess(Tail(a), Tail(b))

(***************************************************************************)
(* C13: no RequestID is used twice: a setRequest that returns nil stores   *)
(* its record under a key that held no record, and leaves the counter no   *)
(* smaller than it was, also when incrementID is applied to the largest    *)
(* counter value.                                                          *)
(***************************************************************************)
C13_NeverReused ==
    [][(last'.op = "create" /\ last'.err = Nil) =>
          /\ DOMAIN ctx'.requests # DOMAIN ctx.requests
          /\ ~BELess(Counter(ctx'), Counter(ctx))]_vars

(***************************************************************************)
(* C14: a setRequestState(id, b) on a stored request changes nothing but   *)
(* the ActiveState of that record, which becomes b: the record's other     *)
(* fields, the other records, the counter and the events are as before.    *)
(* The same call made again right after changes nothing at all.            *)
(***************************************************************************)
C14_FlagOnly ==
    [][/\ (last'.op = "setActive" /\ last'.err = Nil) =>
             /\ DOMAIN ctx'.requests = DOMAIN ctx.requests
             /\ last'.id \in DOMAIN ctx.requests
             /\ \A k \in DOMAIN ctx.requests \ {last'.id} :
                   ctx'.requests[k] = ctx.requests[k]
             /\ Unmarshal(ctx'.requests[last'.id]).request =
                   [Unmarshal(ctx.requests[last'.id]).request
                       EXCEPT !.ActiveState = last'.active]
             /\ ctx'.idTag = ctx.idTag
             /\ ctx'.events = ctx.events
       /\ (/\ last.op = "setActive" /\ last.err = Nil
           /\ last'.op = "setActive" /\ last'.err = Nil
           /\ last'.id = last.id /\ last'.active = last.active) =>
             ctx' = ctx]_vars

\* a request among two has been deactivated twice in a row
C14_Witness ==
    /\ last.op = "setActive"
    /\ last.err = Nil
    /\ ~last.active
    /\ nCreated = 2
    /\ ~Unmarshal(last.before).request.ActiveState
    /\ ~Record(last.id).ActiveState

\* the verdict of the ordered reference: the error of the first step that
\* fails, nil when none does.  Where the reference has no output to
\* extract it names no verdict, and any returned value agrees with it.
OrderedVerdicts(id) ==
    IF ~VinValid THEN {ErrInvalidVin}
    ELSE IF ~VoutValid THEN {ErrInvalidVout}
    ELSE IF ~Exists(id) THEN {ErrUnknownRequest}
    ELSE IF ~Record(id).ActiveState THEN {ErrClosedRequest}
    ELSE IF Record(id).Pays # ZeroDigest /\ ~OutputInRange THEN Returned
    ELSE IF /\ Record(id).Pays # ZeroDigest
            /\ Hash256(SelectedOutput.script) # Record(id).Pays
         THEN {ErrRequestPays}
    ELSE IF /\ Record(id).Pays # ZeroDigest
            /\ Record(id).PaysValue # 0
            /\ SelectedOutput.value < Record(id).PaysValue
         THEN {ErrRequestValue}
    ELSE IF Record(id).Spends # ZeroDigest /\ ~InputInRange THEN {ErrBTCSPV}
    ELSE IF /\ Record(id).Spends # ZeroDigest
            /\ Hash256(SelectedOutpoint) # Record(id).Spends
         THEN {ErrRequestSpends}
    ELSE {Nil}

(***************************************************************************)
(* C15: for every transaction data and every store, checkRequests returns  *)
(* the verdict of the ordered reference: the first failing step among      *)
(* InvalidVin, InvalidVout, UnknownRequest, ClosedRequest, RequestPays,    *)
(* RequestValue, the input-extraction error and RequestSpends decides, so  *)
(* a pay mismatch or a value below the floor goes before a spend mismatch. *)
(***************************************************************************)
C15_OrderedVerdict == last.op = "check" => last.err \in OrderedVerdicts(last.id)

\* the request under id was created with no pays and a value floor
FloorWithoutPays(id) ==
    \E i \in 1..Len(ctx.events) :
        /\ ctx.events[i].id = id
        /\ ctx.events[i].pays = <<>>
        /\ ctx.events[i].paysValue # 0

(***************************************************************************)
(* C16: the value floor is looked at only under a pay constraint.  For an  *)
(* active request created with empty pays and a non-zero paysValue,        *)
(* checkRequests never returns RequestValue or RequestPays, whatever       *)
(* output is selected (one below the floor, or none at all): the verdict   *)
(* is that of the structure of vin and vout and of the spend constraint.   *)
(***************************************************************************)
C16_FloorNeedsPays ==
    ( /\ last.op = "check"
      /\ Exists(last.id)
      /\ Record(last.id).ActiveState
      /\ FloorWithoutPays(last.id) )
    => /\ last.err \notin {ErrRequestValue, ErrRequestPays}
       /\ last.err =
             IF ~VinValid THEN ErrInvalidVin
             ELSE IF ~VoutValid THEN ErrInvalidVout
             ELSE IF Record(last.id).Spends = ZeroDigest THEN Nil
             ELSE IF ~InputInRange THEN ErrBTCSPV
             ELSE IF Hash256(SelectedOutpoint) # Record(last.id).Spends
                  THEN ErrRequestSpends
                  ELSE Nil

\* an output below the floor passes the check of such a request
C16_Witness ==
    /\ CheckedActive
    /\ FloorWithoutPays(last.id)
    /\ OutputInRange
    /\ SelectedOutput.value < Record(last.id).PaysValue
    /\ last.err = Nil

\* the ID the latest event announces
AssignedID == ctx.events[Len(ctx.events)].id

(***************************************************************************)
(* C17: right after a setRequest that returned nil and was assigned ID i,  *)
(* the counter is i + 1, and getRequest(i) returns a record with           *)
(* ActiveState true, Spends and Pays the zero digest where the argument    *)
(* was empty and its hash otherwise, and PaysValue, NumConfs, Origin and   *)
(* Action the arguments of the call.                                       *)
(***************************************************************************)
C17_CreateThenGet ==
    [][(last.op = "create" /\ last.err = Nil) =>
          /\ \E k \in 0..MaxCreates :
                AssignedID = IdOf(k) /\ Counter(ctx) = IdOf(k + 1)
          /\ (last'.op = "get" /\ last'.id = AssignedID) =>
                /\ last'.err = Nil
                /\ last'.request =
                      [Spends |-> IF last.spends = <<>> THEN ZeroDigest
                                  ELSE Hash256(last.spends),
                       Pays |-> IF last.pays = <<>> THEN ZeroDigest
                                ELSE Hash256(last.pays),
                       PaysValue |-> last.paysValue,
                       ActiveState |-> TRUE,
                       NumConfs |-> last.numConfs,
                       Origin |-> last.origin,
                       Action |-> last.action]]_vars

\* the second request, with a spend constraint only, has been read back
C17_Witness ==
    /\ last.op = "get"
    /\ last.err = Nil
    /\ nCreated = 2
    /\ last.id = AssignedID
    /\ last.id = IdOf(1)
    /\ Counter(ctx) = IdOf(2)
    /\ last.request.ActiveState
    /\ last.request.Spends = Hash256(OutpointX)
    /\ last.request.Pays = ZeroDigest
    /\ last.request.PaysValue = FloorValue

\* the counter key holds bytes that are not a RequestID
Malformed == ctx.idTag.has /\ Len(ctx.idTag.val) # 8

(***************************************************************************)
(* C18: while the counter key holds bytes of another length than 8,        *)
(* getNextID fails with MalformedCounter, and so does setRequest, which    *)
(* then stores no record, leaves the counter bytes as they are and emits   *)
(* no event.  On an absent counter key getNextID writes eight zero bytes   *)
(* and returns ID 0.  A getNextID that succeeds returns the counter and    *)
(* leaves it in the store, so that calling it again returns the same ID.   *)
(***************************************************************************)
C18_MalformedCounter ==
    [][/\ (Malformed /\ last'.op \in {"peekNext", "create"}) =>
             /\ last'.err = ErrBadIDLength
             /\ ctx' = ctx
       /\ (~ctx.idTag.has /\ last'.op = "peekNext") =>
             /\ last'.err = Nil
             /\ last'.id = IdOf(0)
             /\ ctx' = [ctx EXCEPT !.idTag = [has |-> TRUE, val |-> IdOf(0)]]
       /\ (last'.op = "peekNext" /\ last'.err = Nil) =>
             /\ last'.id = Counter(ctx)
             /\ Counter(ctx') = Counter(ctx)
             /\ ctx'.idTag.has
             /\ ctx'.requests = ctx.requests
             /\ ctx'.events = ctx.events]_vars

\* a create has failed on a counter of seven bytes, and left the store empty
C18_Witness ==
    /\ last.op = "create"
    /\ last.err = ErrBadIDLength
    /\ ctx.idTag = [has |-> TRUE, val |-> Repeat(0, 7)]
    /\ ctx.requests = NoRequests
    /\ ctx.events = <<>>

\* both calls of setRequest have returned
BothDone == \A p \in Callers : calls[p].pc = "done"

\* one call went through getNextID after the other had, and before the
\* other had gone through incrementID
Overlapped == \E p \in Callers : calls[p].overlapped

(***************************************************************************)
(* C19: getNextID and incrementID are two steps of setRequest, and nothing *)
(* holds the counter between them.  When the getNextID of one setRequest   *)
(* comes between the getNextID and the incrementID of another, both store  *)
(* under the same ID, the later store.Set replacing the earlier record,    *)
(* and the counter ends two above that ID, so that the ID in between has   *)
(* no record.  When it does not, the two calls store under two IDs, both   *)
(* records stay, and no ID below the counter is without a record; a call   *)
(* whose steps run alone does what setRequest does.                        *)
(***************************************************************************)
C19_PeekAdvanceNotAtomic ==
    /\ (BothDone /\ Overlapped) =>
          /\ calls[1].id = IdOf(0) /\ calls[2].id = IdOf(0)
          /\ DOMAIN ctx.requests = {IdOf(0)}
          /\ ctx.requests[IdOf(0)] \in
                {Marshal(BuildRequest(calls[q])) : q \in Callers}
          /\ Counter(ctx) = IdOf(2)
          /\ IdOf(1) \notin DOMAIN ctx.requests
          /\ \A i \in 1..Len(ctx.events) : ctx.events[i].id = IdOf(0)
    /\ (BothDone /\ ~Overlapped) =>
          /\ calls[1].id # calls[2].id
          /\ DOMAIN ctx.requests = {IdOf(0), IdOf(1)}
          /\ \A p \in Callers :
                /\ calls[p].id = IdOf(calls[p].order - 1)
                /\ ctx.requests[calls[p].id] = Marshal(BuildRequest(calls[p]))
          /\ Counter(ctx) = IdOf(2)
    /\ \A p \in Callers :
          (calls[p].pc = "done" /\ \A q \in Callers \ {p} : calls[q].pc = "idle")
          => ctx = setRequest(EmptyCtx, calls[p].spends, calls[p].pays,
                              calls[p].paysValue, calls[p].numConfs,
                              calls[p].origin, calls[p].action).ctx

\* two overlapping calls with different requests have returned: one record
\* under ID 0, none under ID 1, the counter at 2
C19_Witness ==
    /\ BothDone
    /\ Overlapped
    /\ BuildRequest(calls[1]) # BuildRequest(calls[2])
    /\ DOMAIN ctx.requests = {IdOf(0)}
    /\ Counter(ctx) = IdOf(2)
    /\ Len(ctx.events) = 2

\* binary.BigEndian.Uint64 of the counter, zero for an absent key
RECURSIVE BEToUint(_)
BEToUint(b) == IF b = <<>> THEN 0 ELSE 256 * BEToUint(SubSeq(b, 1, Len(b) - 1)) + b[Len(b)]

CounterValue(c) == BEToUint(Counter(c))

\* the records are those of the IDs below the counter, which counts the
\* creates
StoreConsistent(c, n) ==
    /\ DOMAIN c.requests = {IdOf(i) : i \in 0..(CounterValue(c) - 1)}
    /\ ~hasRequest(c, Counter(c))
    /\ CounterValue(c) = n

(***************************************************************************)
(* C20: between the calls, from an empty store on: there is a record under *)
(* ID i exactly when i is below the counter (an absent counter key counts  *)
(* as 0), so the ID the next setRequest will get holds no record; the      *)
(* counter is the number of setRequest calls that returned nil; and no     *)
(* call removes a record.                                                  *)
(***************************************************************************)
C20_StoreInvariant ==
    /\ []StoreConsistent(ctx, nCreated)
    /\ [][DOMAIN ctx.requests \subseteq DOMAIN ctx'.requests]_vars

\* two creates have been made, and a request closed: records under 0 and 1,
\* none under 2, the counter at 2
C20_Witness ==
    /\ nCreated = 2
    /\ CounterValue(ctx) = 2
    /\ hasRequest(ctx, IdOf(0)) /\ hasRequest(ctx, IdOf(1))
    /\ ~hasRequest(ctx, IdOf(2))
    /\ closed # {}

====
